---- MODULE Spec2Model ----
(***************************************************************************)
(* Model of the viral-content pipeline: the historical store               *)
(* (database.py), the cross-platform pass (viral_identification.py) and    *)
(* the per-platform scoring engine (instagram.py and its three copies).    *)
(*                                                                         *)
(* Conventions.  A Python dict is a function whose DOMAIN is the set of    *)
(* keys present.  A float with one decimal is its number of tenths         *)
(* (3.5 is 35).  A calendar date is its proleptic ordinal, a timestamp is  *)
(* the ordinal of the day it was taken.  A file name is a sequence of      *)
(* one-character strings.  Python's None / SQL NULL is the value None.     *)
(***************************************************************************)
EXTENDS Integers, Sequences, FiniteSets, TLC

VARIABLES
    profiles,   \* table profiles (add_profile commits at once)
    videos,     \* table videos as other connections see it (committed rows)
    daily,      \* table daily_top_videos as other connections see it
    dailyTx,    \* table daily_top_videos as the writer's connection sees it
    today,      \* the clock: datetime.now(), as a day ordinal
    pc,         \* where the writer is: idle, add_video, done, raised, returned
    op,         \* the entry point of the call in progress
    inFile,     \* import_from_json: the path given
    inContent,  \* import_from_json: what the file at that path holds
    callDay,    \* the clock when the call began
    atStart,    \* the tables when the call began
    prev,       \* the call before this one: entry point, path, content, day
    todo,       \* initialize_database: the files still to import
    exported,   \* export_to_json: {the list written to the output file}
    inProfile,  \* add_profile: {the profile_data given}, or NoProfile
    inVideos,   \* add_daily_top_videos: the list given
    inDate,     \* add_daily_top_videos: the date, after defaulting
    idx,        \* add_daily_top_videos: position in the first loop
    err,        \* the exception raised in the call (caught or not), or NoError
    ret,        \* the set holding import_from_json's return value, if any
    calls,      \* number of calls started
    before,     \* the reader's possible results for inDate when the call began
    seen,       \* {what the concurrent reader got during the call}, or NoRead
    qDate,      \* get_top_videos_by_date: the date, after defaulting
    qLimit,     \* get_top_videos_by_date: limit
    qRows,      \* get_top_videos_by_date: the date's ranking rows at the query
    qResult,    \* get_top_videos_by_date: {the list returned}, or NoRead
    ppc,        \* cross-platform pass: start, combined, sampled, normalized,
                \* renormalized, selected
    files,      \* the four top_<platform>_viral_videos.json files, as loaded
    genArg,     \* identify_viral_videos: generate_samples as the caller gave it
    pool,       \* the list handed to normalize_video_data
    norm,       \* normalize_video_data(pool)
    norm2,      \* normalize_video_data(norm)
    selIn,      \* the list handed to select_top_viral_videos
    count,      \* select_top_viral_videos: count
    minRatio,   \* select_top_viral_videos: min_ratio, in tenths
    top,        \* select_top_viral_videos: the result
    epc,        \* scoring engine: start, done
    cohort,     \* identify_viral_videos (per platform): the list given
    engMin,     \* identify_viral_videos (per platform): min_ratio, in tenths
    viral       \* identify_viral_videos (per platform): the result

\* The tables.
tableVars == <<profiles, videos, daily, dailyTx>>

\* What a call fixes when it begins.
callVars == <<op, inFile, inContent, inProfile, inVideos, inDate, callDay, calls,
              before, atStart, prev>>

\* The last query on the store's connection.
queryVars == <<qDate, qLimit, qRows, qResult>>

storeVars == <<tableVars, callVars, today, pc, idx, err, ret, seen, todo, exported,
               queryVars>>

pipeVars == <<ppc, files, genArg, pool, norm, norm2, selIn, count, minRatio, top>>

engVars == <<epc, cohort, engMin, viral>>

vars == <<storeVars, pipeVars, engVars>>

-----------------------------------------------------------------------------
(* Bounds *)

MaxVideos == 2      \* longest list handed to the store
MaxCalls == 2       \* calls of the store per behaviour
MaxTicks == 1       \* days the clock may advance

-----------------------------------------------------------------------------
(* Python values *)

None == "<None>"
NoError == "NoError"
NoRead == {}
NoReturn == {}
NoFile == <<>>
NoContent == [kind |-> "none"]
NoExport == {}
NoProfile == {}

\* a or b
Or(a, b) == IF a \in {None, ""} THEN b ELSE a

Get(d, k, default) == IF k \in DOMAIN d THEN d[k] ELSE default

Min(a, b) == IF a < b THEN a ELSE b

\* The sequences over S of length 0..n.
SeqUpTo(S, n) == UNION {[1..k -> S] : k \in 0..n}

\* datetime.now() on the first day of a behaviour: 2026-11-05 as an ordinal.
FirstDay == 739925

\* date.min.toordinal(): below it date arithmetic raises OverflowError.
MinOrdinal == 1

-----------------------------------------------------------------------------
(* database.py: the tables *)

\* add_profile: the row built from profile_data, stamped with the clock.
ProfileRow(profile_data, now) ==
    LET profile_id == Or(Get(profile_data, "id", None),
                         Get(profile_data, "username", None))
        platform == Get(profile_data, "platform", "unknown")
    IN  [id |-> profile_id,
         platform |-> platform,
         name |-> Or(Get(profile_data, "name", None),
                     Or(Get(profile_data, "display_name", None),
                        Or(Get(profile_data, "full_name", None), profile_id))),
         url |-> Get(profile_data, "url",
                     <<"https://www.", platform, ".com/", profile_id>>),
         follower_count |-> Get(profile_data, "follower_count", 0),
         last_updated |-> Get(profile_data, "last_updated", now)]

\* CREATE TABLE profiles: platform and name are NOT NULL.
ProfileRowAccepted(row) == row.platform # None /\ row.name # None

\* (InsertOrIgnoreProfile keeps the row the table has for the id.)
InsertOrIgnoreProfile(table, row) ==
    IF \E r \in table : r.id # None /\ r.id = row.id THEN table ELSE table \cup {row}

\* INSERT OR REPLACE INTO profiles.
UpsertProfile(table, row) ==
    {r \in table : r.id = None \/ r.id # row.id} \cup {row}

\* add_video: the row built from video_data, stamped with the clock.
VideoRow(video_data, now) ==
    LET platform == Get(video_data, "platform", "unknown")
        profile_id ==
            IF platform = "instagram" THEN Get(video_data, "profile", None)
            ELSE IF platform = "youtube" THEN Get(video_data, "channel_id", None)
            ELSE IF platform = "tiktok" THEN Get(video_data, "username", None)
            ELSE IF platform = "facebook" THEN Get(video_data, "page_id", None)
            ELSE Get(video_data, "creator", "unknown")
    IN  [id |-> Get(video_data, "id", None),
         platform |-> platform,
         profile_id |-> profile_id,
         title |-> Get(video_data, "title", "Untitled Video"),
         url |-> Get(video_data, "url", ""),
         thumbnail |-> Get(video_data, "thumbnail", ""),
         views |-> Get(video_data, "views", 0),
         performance_ratio |-> Get(video_data, "performance_ratio", 10),
         post_date |-> Get(video_data, "post_date", now),
         collection_date |-> now]

\* CREATE TABLE videos: the NOT NULL columns a row of the model can miss.
\* (id is TEXT PRIMARY KEY without NOT NULL: sqlite accepts NULL there.)
VideoRowAccepted(row) ==
    /\ row.platform # None
    /\ row.profile_id # None
    /\ row.title # None
    /\ row.url # None

\* (ReplaceAllVideos drops every other row of the table.)
ReplaceAllVideos(table, row) == {row}

\* INSERT OR REPLACE INTO videos: a row with the same non-NULL id is replaced,
\* NULL ids never conflict.
UpsertVideo(table, row) ==
    {r \in table : r.id = None \/ r.id # row.id} \cup {row}

\* CREATE TABLE daily_top_videos: date, video_id, rank are NOT NULL.
RankRowAccepted(row) == row.video_id # None

\* INSERT OR REPLACE INTO daily_top_videos, PRIMARY KEY (date, video_id).
UpsertRank(table, row) ==
    {r \in table : ~(r.date = row.date /\ r.video_id = row.video_id)} \cup {row}

\* enumerate(videos, 1) numbers the list's positions from 1, whatever the
\* table holds.  (RankAfterExisting numbers them after the date's rows.)
RankAfterExisting(table, date, position) ==
    position + Cardinality({r \in table : r.date = date})

\* (RankFromZero is enumerate(videos) without the start of 1.)
RankFromZero(table, date, position) == position - 1

RankAt(table, date, position) == position

\* The second loop of add_daily_top_videos from position rank on: the table
\* the writer's connection ends with, and whether an insert raised.
RECURSIVE RankLoop(_, _, _, _)
RankLoop(table, vids, date, rank) ==
    IF rank > Len(vids) THEN [table |-> table, raised |-> FALSE]
    ELSE LET row == [date |-> date,
                     video_id |-> Get(vids[rank], "id", None),
                     rank |-> RankAt(table, date, rank)]
         IN  IF RankRowAccepted(row)
             THEN RankLoop(UpsertRank(table, row), vids, date, rank + 1)
             ELSE [table |-> table, raised |-> TRUE]

\* The permutations of a finite set, as sequences.
Perms(S) ==
    {f \in [1..Cardinality(S) -> S] : \A i, j \in DOMAIN f : i # j => f[i] # f[j]}

\* (TopResultsCutFirst cuts the joined rows to limit before it orders them.)
TopResultsCutFirst(vtable, dtable, date, limit) ==
    LET joined == {p \in vtable \X dtable :
                      /\ p[2].date = date
                      /\ p[1].id # None
                      /\ p[1].id = p[2].video_id}
        cut == {c \in SUBSET joined : Cardinality(c) = Min(limit, Cardinality(joined))}
        ordered == UNION {{s \in Perms(c) :
                            \A i, j \in DOMAIN s : i < j => s[i][2].rank <= s[j][2].rank}
                          : c \in cut}
    IN  {[i \in DOMAIN s |-> s[i][1]] : s \in ordered}

\* get_top_videos_by_date: the results the query may return.  ORDER BY d.rank
\* leaves the order of rows of equal rank open; LIMIT cuts after ordering.
TopResults(vtable, dtable, date, limit) ==
    LET joined == {p \in vtable \X dtable :
                      /\ p[2].date = date
                      /\ p[1].id # None
                      /\ p[1].id = p[2].video_id}
        ordered == {s \in Perms(joined) :
                      \A i, j \in DOMAIN s : i < j => s[i][2].rank <= s[j][2].rank}
    IN  {[i \in 1..Min(limit, Len(s)) |-> s[i][1]] : s \in ordered}

\* get_top_videos_by_date(limit=10)
DefaultLimit == 10

\* The limits a caller passes.
Limits == {0, 1, 2, DefaultLimit}

-----------------------------------------------------------------------------
(* viral_identification.py: the cross-platform pass *)

\* d[k] = x on a dict.
Put(d, k, x) == [j \in DOMAIN d \cup {k} |-> IF j = k THEN x ELSE d[j]]

Platforms == <<"instagram", "youtube", "tiktok", "facebook">>

\* What open() and json.load() make of a path: no such file, a file that is
\* not JSON, or the parsed value.
Missing == [kind |-> "FileNotFoundError"]
Invalid == [kind |-> "JSONDecodeError"]
Undecodable == [kind |-> "UnicodeDecodeError"]
JsonList(value) == [kind |-> "json", type |-> "list", value |-> value]
JsonObject == [kind |-> "json", type |-> "dict", value |-> <<>>]

\* load_json_data: the parsed content, or [] when the file is missing or is
\* not JSON.
LoadJsonData(content) ==
    IF content.kind = "json" THEN content.value ELSE <<>>

\* load_json_data catches FileNotFoundError and JSONDecodeError; any other
\* exception of open() or json.load() leaves it.
LoadRaises(content) ==
    content.kind \notin {"json", "FileNotFoundError", "JSONDecodeError"}

\* (CombineFromAborting gives up at the first file that does not load.)
RECURSIVE CombineFromAborting(_, _)
CombineFromAborting(fs, i) ==
    IF i > Len(Platforms) THEN <<>>
    ELSE IF fs[Platforms[i]].kind # "json" THEN <<>>
    ELSE fs[Platforms[i]].value \o CombineFromAborting(fs, i + 1)

\* combine_platform_videos: the files' records, in the order of platforms.
\* The loop's own except clause turns an exception that left load_json_data
\* into no records for that platform.
RECURSIVE CombineFrom(_, _)
CombineFrom(fs, i) ==
    IF i > Len(Platforms) THEN <<>>
    ELSE LET loaded == IF LoadRaises(fs[Platforms[i]]) THEN <<>>
                       ELSE LoadJsonData(fs[Platforms[i]])
         IN  (IF loaded # <<>> THEN loaded ELSE <<>>) \o CombineFrom(fs, i + 1)

CombinePlatformVideos(fs) == CombineFrom(fs, 1)

CreatorKeys == <<"profile", "channel_id", "username", "page_id">>

\* (NormalizedCreatorByPlatform reads the key of the record's platform.)
NormalizedCreatorByPlatform(video) ==
    LET platform == Get(video, "platform", "unknown")
        key == IF platform = "instagram" THEN "profile"
               ELSE IF platform = "youtube" THEN "channel_id"
               ELSE IF platform = "tiktok" THEN "username"
               ELSE "page_id"
    IN  Get(video, key, "Unknown Creator")

\* normalize_video_data, the if/elif chain: the value under the first
\* creator key the record has.
NormalizedCreator(video) ==
    IF "profile" \in DOMAIN video THEN video["profile"]
    ELSE IF "channel_id" \in DOMAIN video THEN video["channel_id"]
    ELSE IF "username" \in DOMAIN video THEN video["username"]
    ELSE IF "page_id" \in DOMAIN video THEN video["page_id"]
    ELSE "Unknown Creator"

\* normalize_video_data, the loop body.
NormalizeVideo(video, now) ==
    LET base == [id |-> Get(video, "id", ""),
                 platform |-> Get(video, "platform", "unknown"),
                 title |-> Get(video, "title", "Untitled Video"),
                 url |-> Get(video, "url", ""),
                 thumbnail |-> Get(video, "thumbnail", ""),
                 views |-> Get(video, "views", 0),
                 performance_ratio |-> Get(video, "performance_ratio", 10),
                 post_date |-> Get(video, "post_date", now)]
        tagged == IF Get(video, "platform", None) = "youtube"
                  THEN Put(base, "videoId",
                           Get(video, "videoId", Get(video, "id", "")))
                  ELSE base
    IN  Put(tagged, "creator", NormalizedCreator(video))

\* (NormalizeVideoDataDroppingNoId skips the records that have no id.)
NormalizeVideoDataDroppingNoId(vids, now) ==
    LET kept == SelectSeq(vids, LAMBDA v : "id" \in DOMAIN v)
    IN  [i \in 1..Len(kept) |-> NormalizeVideo(kept[i], now)]

\* (NormalizeVideoDataRescoring sets each ratio to the record's views over
\* the mean of the list's views.)
NormalizeVideoDataRescoring(vids, now) ==
    LET views(i) == Get(vids[i], "views", 0)
        total[k \in 0..Len(vids)] == IF k = 0 THEN 0 ELSE total[k - 1] + views(k)
    IN  [i \in 1..Len(vids) |->
            Put(NormalizeVideo(vids[i], now), "performance_ratio",
                IF total[Len(vids)] > 0
                THEN (10 * views(i) * Len(vids)) \div total[Len(vids)]
                ELSE 0)]

NormalizeVideoData(vids, now) ==
    [i \in 1..Len(vids) |-> NormalizeVideo(vids[i], now)]

\* The sort key of select_top_viral_videos.
RatioKey(v) == Get(v, "performance_ratio", 0)

\* list.sort(key, reverse=True) is stable: of two elements with equal keys
\* the one that came first stays first.
InsertDescTiesFirst(sorted, x) ==
    LET ahead == {i \in DOMAIN sorted : RatioKey(sorted[i]) > RatioKey(x)}
        k == Cardinality(ahead)
    IN  SubSeq(sorted, 1, k) \o <<x>> \o SubSeq(sorted, k + 1, Len(sorted))

InsertDesc(sorted, x) ==
    LET ahead == {i \in DOMAIN sorted : RatioKey(sorted[i]) >= RatioKey(x)}
        k == Cardinality(ahead)
    IN  SubSeq(sorted, 1, k) \o <<x>> \o SubSeq(sorted, k + 1, Len(sorted))

RECURSIVE SortByRatioDesc(_)
SortByRatioDesc(s) ==
    IF s = <<>> THEN <<>>
    ELSE InsertDesc(SortByRatioDesc(SubSeq(s, 1, Len(s) - 1)), s[Len(s)])

\* The list comprehension of select_top_viral_videos.
RECURSIVE FilterByRatio(_, _)
FilterByRatioStrict(s, min_ratio) ==
    IF s = <<>> THEN <<>>
    ELSE (IF RatioKey(Head(s)) > min_ratio THEN <<Head(s)>> ELSE <<>>)
         \o FilterByRatio(Tail(s), min_ratio)

FilterByRatio(s, min_ratio) ==
    IF s = <<>> THEN <<>>
    ELSE (IF RatioKey(Head(s)) >= min_ratio THEN <<Head(s)>> ELSE <<>>)
         \o FilterByRatio(Tail(s), min_ratio)

\* s[:n] of a list.
SliceTo(s, n) ==
    IF n >= 0 THEN SubSeq(s, 1, Min(n, Len(s)))
    ELSE SubSeq(s, 1, IF Len(s) + n > 0 THEN Len(s) + n ELSE 0)

SelectTopViralVideos(vids, n, min_ratio) ==
    SliceTo(SortByRatioDesc(FilterByRatio(vids, min_ratio)), n)

\* select_top_viral_videos(videos, count=10, min_ratio=2.0)
DefaultCount == 10
DefaultMinRatio == 20

-----------------------------------------------------------------------------
(* instagram.py, youtube.py, tiktok.py, facebook.py: the scoring engine *)

RECURSIVE SumViews(_)
SumViews(vids) ==
    IF vids = <<>> THEN 0 ELSE vids[1]["views"] + SumViews(Tail(vids))

\* (RoundTenthsDown cuts the quotient off after the first decimal.)
RoundTenthsDown(p, q, up) == (10 * p) \div q

\* round(p / q, 1) in tenths, for p >= 0 and q > 0, with p / q the exact
\* quotient.  A quotient exactly halfway between two tenths is a binary
\* fraction only when it ends in .25 or .75, and round() then goes to the
\* even tenth; any other halfway quotient is not a float, and the float the
\* division yields lies on either side of it: up says which.
RoundTenths(p, q, up) ==
    LET t == (10 * p) \div q
        rem == (10 * p) % q
    IN  IF 2 * rem < q THEN t
        ELSE IF 2 * rem > q THEN t + 1
        ELSE IF (2 * t + 1) % 5 = 0 THEN (IF t % 2 = 0 THEN t ELSE t + 1)
        ELSE IF up THEN t + 1 ELSE t

\* calculate_average_views is total_views / len(videos), so the ratio
\* views / avg_views is views * len(videos) / total_views; it is 0 when the
\* average is not positive.  EngineRatio: round(ratio, 1), in tenths.
EngineRatioTruncated(video, vids, up) ==
    LET total == SumViews(vids)
    IN  IF total > 0 THEN (10 * video["views"] * Len(vids)) \div total ELSE 0

EngineRatio(video, vids, up) ==
    LET total == SumViews(vids)
    IN  IF total > 0 THEN RoundTenths(video["views"] * Len(vids), total, up)
        ELSE 0

IsViralOnRounded(video, vids, min_ratio) ==
    EngineRatio(video, vids, TRUE) >= min_ratio

\* (IsViralUnguarded compares without the test for a positive average.)
IsViralUnguarded(video, vids, min_ratio) ==
    10 * video["views"] * Len(vids) >= min_ratio * SumViews(vids)

\* (IsViralAboveAverage takes every record at or above the average.)
IsViralAboveAverage(video, vids, min_ratio) ==
    SumViews(vids) > 0 /\ video["views"] * Len(vids) >= SumViews(vids)

\* identify_viral_videos: ratio >= min_ratio, on the ratio before rounding.
IsViral(video, vids, min_ratio) ==
    LET total == SumViews(vids)
    IN  IF total > 0
        THEN 10 * video["views"] * Len(vids) >= min_ratio * total
        ELSE 0 >= min_ratio

\* (ViralFromPrepending puts each viral record in front of the list.)
RECURSIVE ViralFromPrepending(_, _, _, _)
ViralFromPrepending(vids, min_ratio, ups, i) ==
    IF i > Len(vids) THEN <<>>
    ELSE ViralFromPrepending(vids, min_ratio, ups, i + 1)
         \o (IF IsViral(vids[i], vids, min_ratio)
             THEN <<Put(vids[i], "performance_ratio",
                        EngineRatio(vids[i], vids, ups[i]))>>
             ELSE <<>>)

\* identify_viral_videos(videos, min_ratio): the loop from position i on.
\* ups[i] says how round() goes for videos[i] at a halfway quotient.
RECURSIVE ViralFrom(_, _, _, _)
ViralFrom(vids, min_ratio, ups, i) ==
    IF i > Len(vids) THEN <<>>
    ELSE (IF IsViral(vids[i], vids, min_ratio)
          THEN <<Put(vids[i], "performance_ratio",
                     EngineRatio(vids[i], vids, ups[i]))>>
          ELSE <<>>)
         \o ViralFrom(vids, min_ratio, ups, i + 1)

IdentifyViralVideos(vids, min_ratio, ups) ==
    IF vids = <<>> THEN <<>> ELSE ViralFrom(vids, min_ratio, ups, 1)

-----------------------------------------------------------------------------
(* database.py, import_from_json: the date a file name stands for *)

Digits == <<"0", "1", "2", "3", "4", "5", "6", "7", "8", "9">>

DigitSet == {Digits[i] : i \in DOMAIN Digits}

DigitValue(c) == (CHOOSE i \in DOMAIN Digits : Digits[i] = c) - 1

\* The least position >= from where s holds c, or Len(s) + 1.
IndexOf(s, c, from) ==
    LET hits == {i \in from..Len(s) : s[i] = c}
    IN  IF hits = {} THEN Len(s) + 1
        ELSE CHOOSE i \in hits : \A j \in hits : i <= j

\* os.path.basename(path)
Basename(path) ==
    LET slashes == {i \in DOMAIN path : path[i] = "/"}
        last == IF slashes = {} THEN 0
                ELSE CHOOSE i \in slashes : \A j \in slashes : j <= i
    IN  SubSeq(path, last + 1, Len(path))

\* s.startswith(prefix)
StartsWith(s, prefix) ==
    Len(s) >= Len(prefix) /\ SubSeq(s, 1, Len(prefix)) = prefix

\* s.split(c)[0]
SplitField0(s, c) == SubSeq(s, 1, IndexOf(s, c, 1) - 1)

\* s.split(c)[1], for s that holds c
SplitField1(s, c) ==
    LET first == IndexOf(s, c, 1)
    IN  SubSeq(s, first + 1, IndexOf(s, c, first + 1) - 1)

RECURSIVE DigitsValue(_)
DigitsValue(text) ==
    IF text = <<>> THEN 0
    ELSE 10 * DigitsValue(SubSeq(text, 1, Len(text) - 1)) + DigitValue(text[Len(text)])

\* int(text) accepts an optional sign and then one or more digits (of the
\* characters the model's names are made of); anything else is a ValueError.
IntAccepts(text) ==
    LET body == IF text # <<>> /\ text[1] \in {"+", "-"} THEN Tail(text) ELSE text
    IN  body # <<>> /\ \A i \in DOMAIN body : body[i] \in DigitSet

IntValue(text) ==
    IF text[1] = "-" THEN 0 - DigitsValue(Tail(text))
    ELSE IF text[1] = "+" THEN DigitsValue(Tail(text))
    ELSE DigitsValue(text)

VideosDash == <<"v", "i", "d", "e", "o", "s", "-">>
DotJson == <<".", "j", "s", "o", "n">>

\* No offset in the name: date stays None.
NoOffset == -1

\* import_from_json: day_offset, or NoOffset when the name has none.
DayOffset(path) ==
    LET filename == Basename(path)
        text == SplitField0(SplitField1(filename, "-"), ".")
    IN  IF ~StartsWith(filename, VideosDash) THEN NoOffset
        ELSE IF IntAccepts(text) THEN IntValue(text)
        ELSE NoOffset

\* (datetime.now() - timedelta(days=day_offset)).date() raises OverflowError
\* when the day does not exist.
OffsetOverflows(day_offset, now) ==
    day_offset # NoOffset /\ now - day_offset < MinOrdinal

\* The date handed to add_daily_top_videos, None replaced by today's date.
ImportDate(day_offset, now) ==
    IF day_offset = NoOffset THEN now ELSE now - day_offset

-----------------------------------------------------------------------------
(* The records and lists the store is called with *)

A1 == [id |-> "a", platform |-> "instagram", profile |-> "p1", views |-> 10,
       performance_ratio |-> 35]
A2 == [id |-> "a", platform |-> "instagram", profile |-> "p1", views |-> 20,
       performance_ratio |-> 40]
B1 == [id |-> "b", platform |-> "youtube", channel_id |-> "c1", views |-> 10,
       performance_ratio |-> 35]
N0 == [platform |-> "tiktok", username |-> "u1", views |-> 5]

\* A record with no platform and no creator key.
U1 == [id |-> "b", views |-> 7, performance_ratio |-> 20]

StoreRecords == {A1, A2, B1}

StoreLists == SeqUpTo(StoreRecords, MaxVideos)

\* The snapshot generate_daily_data writes for a pool: what identify_viral_videos
\* (cross-platform) selected with its defaults.
Snapshot(vids, now) ==
    SelectTopViralVideos(NormalizeVideoData(vids, now), DefaultCount, DefaultMinRatio)

Snapshots == {Snapshot(l, FirstDay) : l \in {<<>>, <<A1>>, <<U1>>, <<U1, A1>>}}

\* Lists of raw records found in sample-videos.json (collect_instagram_data
\* writes its top list there), one of them with a record that has no id.
RawLists == {<<A1, B1>>, <<A2>>, <<B1, N0, A1>>}

ImportContents ==
    {Missing, Invalid, Undecodable, JsonObject}
        \cup {JsonList(l) : l \in Snapshots \cup RawLists}

Name(text) == VideosDash \o text \o DotJson

SampleVideos ==
    <<"s", "a", "m", "p", "l", "e", "-", "v", "i", "d", "e", "o", "s">> \o DotJson

\* The files generate_daily_data writes.
SnapshotPaths == {Name(<<"0">>), Name(<<"1">>), SampleVideos}

\* Other names a caller may pass.
OtherPaths ==
    {Name(<<"x">>), Name(<<>>), Name(<<"1", ".", "5">>), Name(<<"1", "-", "0">>),
     Name(<<"0", "1">>), Name(<<"9", "9", "9", "9", "9", "9">>),
     <<"d", "-", "9", "/">> \o Name(<<"1">>),
     VideosDash \o <<"1">>}

AllPaths == SnapshotPaths \cup OtherPaths

\* The profiles add_profile is called with.
P1 == [id |-> "p1", platform |-> "instagram", name |-> "One", follower_count |-> 5]
P2 == [username |-> "p1", platform |-> "instagram"]
P3 == [id |-> "c1", platform |-> "youtube", display_name |-> "Channel",
       url |-> <<"u">>, last_updated |-> 1]

ProfileRecords == {P1, P2, P3}

MaxFiles == 2       \* files in the data directory

\* What initialize_database may find in the data directory: names, and what
\* the files hold (os.path.exists and os.listdir name files that exist).
DirNames ==
    {SampleVideos, Name(<<"0">>), Name(<<"1">>), Name(<<"1", ".", "5">>),
     VideosDash \o <<"1">>}

DirContents ==
    {Invalid, Undecodable, JsonObject, JsonList(<<>>), JsonList(<<A1, B1>>)}

\* The directory as os.listdir gives it: files of distinct names, any order.
Listings ==
    {l \in SeqUpTo([path : DirNames, content : DirContents], MaxFiles) :
        \A i, j \in DOMAIN l : i # j => l[i].path # l[j].path}

EndsWith(s, suffix) ==
    Len(s) >= Len(suffix) /\ SubSeq(s, Len(s) - Len(suffix) + 1, Len(s)) = suffix

\* The imports initialize_database makes, in order.
ImportOrder(listing) ==
    SelectSeq(listing, LAMBDA f : f.path = SampleVideos)
        \o SelectSeq(listing, LAMBDA f : StartsWith(f.path, VideosDash)
                                          /\ EndsWith(f.path, DotJson))

-----------------------------------------------------------------------------
(* database.py: the operations *)

Tables == [profiles |-> profiles, videos |-> videos, daily |-> daily,
           dailyTx |-> dailyTx]

\* No call is in progress.
AtRest == pc \in {"idle", "done", "raised", "returned"}

\* initialize_database goes from one file to the next unless an exception
\* left import_from_json, which leaves initialize_database too.
LoopGoesOn == pc \in {"idle", "done", "returned"}

InLoop == todo # <<>> /\ LoopGoesOn

\* The program is free to make a call.
Resting == AtRest /\ ~InLoop

\* The bookkeeping of a call that begins.
BeginCall(entry, file, content) ==
    /\ op' = entry
    /\ inFile' = file
    /\ inContent' = content
    /\ callDay' = today
    /\ calls' = calls + 1
    /\ atStart' = Tables
    /\ prev' = [op |-> op, file |-> inFile, content |-> inContent, day |-> callDay]
    /\ seen' = NoRead

\* The exceptions import_from_json catches and turns into a return of 0.
ImportCatchesAll(e) == TRUE

ImportCatches(e) == e \in {"FileNotFoundError", "JSONDecodeError"}

\* An exception e is raised inside the call: import_from_json returns 0 for
\* the ones it catches, any other reaches the caller.
Leave(entry, e) ==
    /\ err' = e
    /\ IF entry = "import_from_json" /\ ImportCatches(e)
       THEN pc' = "returned" /\ ret' = {0}
       ELSE pc' = "raised" /\ ret' = NoReturn

\* add_profile(profile_data), which commits.
AddProfile ==
    /\ Resting
    /\ calls < MaxCalls
    /\ BeginCall("add_profile", NoFile, NoContent)
    /\ \E profile_data \in ProfileRecords :
          LET row == ProfileRow(profile_data, today)
          IN  /\ inProfile' = {profile_data}
              /\ IF ProfileRowAccepted(row)
                 THEN /\ profiles' = UpsertProfile(profiles, row)
                      /\ daily' = dailyTx
                      /\ pc' = "done"
                      /\ err' = NoError
                 ELSE /\ pc' = "raised"
                      /\ err' = "IntegrityError"
                      /\ UNCHANGED <<profiles, daily>>
    /\ ret' = NoReturn
    /\ inVideos' = <<>>
    /\ UNCHANGED <<videos, dailyTx, today, inDate, idx, before, todo, exported>>
    /\ UNCHANGED <<queryVars, pipeVars, engVars>>

\* add_daily_top_videos(videos, date): entry.  date=None is today's date.
BeginAdd(vids, date, entry, file, content) ==
    /\ BeginCall(entry, file, content)
    /\ inVideos' = vids
    /\ inDate' = date
    /\ idx' = 1
    /\ pc' = "add_video"
    /\ err' = NoError
    /\ ret' = NoReturn
    /\ before' = TopResults(videos, daily, date, DefaultLimit)
    /\ UNCHANGED <<tableVars, today, inProfile, exported>>

AddDailyTopVideos ==
    /\ Resting
    /\ calls < MaxCalls
    /\ \E vids \in StoreLists, date \in {today, today - 1} :
          BeginAdd(vids, date, "add_daily_top_videos", NoFile, NoContent)
    /\ UNCHANGED todo
    /\ UNCHANGED <<queryVars, pipeVars, engVars>>

\* import_from_json(json_file) on a path that holds content.  open() and
\* json.load() raise for a missing file, a file that is not JSON and a file
\* that is not UTF-8; JSON that is not a list returns 0; the date arithmetic
\* may raise OverflowError; otherwise add_daily_top_videos runs on the list.
ImportFile(path, content) ==
    IF content.kind # "json"
    THEN /\ BeginCall("import_from_json", path, content)
         /\ Leave("import_from_json", content.kind)
         /\ inVideos' = <<>>
         /\ UNCHANGED <<tableVars, today, inProfile, inDate, idx, before, exported>>
    ELSE IF content.type # "list"
    THEN /\ BeginCall("import_from_json", path, content)
         /\ pc' = "returned"
         /\ ret' = {0}
         /\ err' = NoError
         /\ inVideos' = <<>>
         /\ UNCHANGED <<tableVars, today, inProfile, inDate, idx, before, exported>>
    ELSE IF OffsetOverflows(DayOffset(path), today)
    THEN /\ BeginCall("import_from_json", path, content)
         /\ Leave("import_from_json", "OverflowError")
         /\ inVideos' = <<>>
         /\ UNCHANGED <<tableVars, today, inProfile, inDate, idx, before, exported>>
    ELSE BeginAdd(content.value, ImportDate(DayOffset(path), today),
                  "import_from_json", path, content)

ImportFromJson(paths) ==
    /\ Resting
    /\ calls < MaxCalls
    /\ \E path \in paths, content \in ImportContents : ImportFile(path, content)
    /\ UNCHANGED todo
    /\ UNCHANGED <<queryVars, pipeVars, engVars>>

ImportSnapshot == ImportFromJson(SnapshotPaths)

ImportAny == ImportFromJson(AllPaths)

\* (AddVideoSynthesizing also writes a profile for the video's creator.)
AddVideoSynthesizing ==
    /\ pc = "add_video"
    /\ idx <= Len(inVideos)
    /\ LET row == VideoRow(inVideos[idx], today)
       IN  IF VideoRowAccepted(row)
           THEN /\ videos' = UpsertVideo(videos, row)
                /\ profiles' = UpsertProfile(profiles,
                                    ProfileRow([id |-> row.profile_id,
                                                platform |-> row.platform], today))
                /\ daily' = dailyTx
                /\ idx' = idx + 1
                /\ UNCHANGED <<pc, err, ret>>
           ELSE /\ Leave(op, "IntegrityError")
                /\ UNCHANGED <<profiles, videos, daily, idx>>
    /\ UNCHANGED <<dailyTx, callVars, today, seen, todo, exported>>
    /\ UNCHANGED <<queryVars, pipeVars, engVars>>

\* One turn of the first loop: add_video(video), which commits.  The commit
\* also publishes whatever the connection had pending.
AddVideo ==
    /\ pc = "add_video"
    /\ idx <= Len(inVideos)
    /\ LET row == VideoRow(inVideos[idx], today)
       IN  IF VideoRowAccepted(row)
           THEN /\ videos' = UpsertVideo(videos, row)
                /\ daily' = dailyTx
                /\ idx' = idx + 1
                /\ UNCHANGED <<pc, err, ret>>
           ELSE /\ Leave(op, "IntegrityError")
                /\ UNCHANGED <<videos, daily, idx>>
    /\ UNCHANGED <<profiles, dailyTx, callVars, today, seen, todo, exported>>
    /\ UNCHANGED <<queryVars, pipeVars, engVars>>

\* The second loop and the final commit.  An insert that raises leaves the
\* rows written so far pending on the connection: nothing rolls them back.
RankAndCommit ==
    /\ pc = "add_video"
    /\ idx > Len(inVideos)
    /\ LET r == RankLoop(dailyTx, inVideos, inDate, 1)
       IN  /\ dailyTx' = r.table
           /\ IF r.raised
              THEN /\ Leave(op, "IntegrityError")
                   /\ UNCHANGED daily
              ELSE /\ pc' = "done"
                   /\ daily' = r.table
                   /\ ret' = IF op = "import_from_json" THEN {Len(inVideos)}
                              ELSE NoReturn
                   /\ UNCHANGED err
    /\ UNCHANGED <<profiles, videos, callVars, today, idx, seen, todo, exported>>
    /\ UNCHANGED <<queryVars, pipeVars, engVars>>

\* The database cannot be reached or written (locked, disk full, closed):
\* the execute or commit the call is at raises sqlite3.OperationalError.
StorageFails ==
    /\ pc = "add_video"
    /\ Leave(op, "OperationalError")
    /\ UNCHANGED <<tableVars, callVars, today, idx, seen, todo, exported>>
    /\ UNCHANGED <<queryVars, pipeVars, engVars>>

\* export_to_json(output_file, date): the query runs outside the try block,
\* whatever goes wrong while writing the file is caught and gives 0.
ExportToJson ==
    /\ Resting
    /\ calls < MaxCalls
    /\ BeginCall("export_to_json", NoFile, NoContent)
    /\ \E date \in {today, today - 1},
          outcome \in {"written", "query raises", "write raises"} :
          /\ inDate' = date
          /\ IF outcome = "query raises"
             THEN /\ pc' = "raised"
                  /\ err' = "OperationalError"
                  /\ ret' = NoReturn
                  /\ UNCHANGED exported
             ELSE \E res \in TopResults(videos, dailyTx, date, DefaultLimit) :
                     IF outcome = "write raises"
                     THEN /\ pc' = "returned"
                          /\ err' = "OSError"
                          /\ ret' = {0}
                          /\ UNCHANGED exported
                     ELSE /\ pc' = "done"
                          /\ err' = NoError
                          /\ ret' = {Len(res)}
                          /\ exported' = {res}
    /\ inVideos' = <<>>
    /\ UNCHANGED <<tableVars, today, inProfile, idx, before, todo>>
    /\ UNCHANGED <<queryVars, pipeVars, engVars>>

\* initialize_database(data_dir): a connection of its own, sample-videos.json
\* first when it exists, then the directory's videos-*.json files in the
\* order os.listdir gives them.
InitializeDatabase ==
    /\ Resting
    /\ calls < MaxCalls
    /\ \E listing \in Listings : todo' = ImportOrder(listing)
    /\ dailyTx' = daily
    /\ UNCHANGED <<profiles, videos, daily, callVars, today, pc, idx, err, ret,
                   seen, exported>>
    /\ UNCHANGED <<queryVars, pipeVars, engVars>>

\* The loop's next import_from_json.
ImportNext ==
    /\ todo # <<>>
    /\ LoopGoesOn
    /\ ImportFile(Head(todo).path, Head(todo).content)
    /\ todo' = Tail(todo)
    /\ UNCHANGED <<queryVars, pipeVars, engVars>>

\* A reader on another connection calls get_top_videos_by_date(inDate) while
\* the writer's call is in progress.
Read ==
    /\ pc = "add_video"
    /\ seen = NoRead
    /\ \E res \in TopResults(videos, daily, inDate, DefaultLimit) : seen' = {res}
    /\ UNCHANGED <<tableVars, callVars, today, pc, idx, err, ret, todo, exported>>
    /\ UNCHANGED <<queryVars, pipeVars, engVars>>

\* get_top_videos_by_date(date, limit) on the store's connection, between
\* calls.  date=None is today's date.
GetTopVideosByDate ==
    /\ Resting
    /\ \E date \in {today, today - 1}, limit \in Limits :
          /\ qDate' = date
          /\ qLimit' = limit
          /\ qRows' = {r \in dailyTx : r.date = date}
          /\ \E res \in TopResults(videos, dailyTx, date, limit) : qResult' = {res}
    /\ UNCHANGED <<tableVars, callVars, today, pc, idx, err, ret, seen, todo, exported>>
    /\ UNCHANGED <<pipeVars, engVars>>

\* Midnight passes.
Tick ==
    /\ today < FirstDay + MaxTicks
    /\ Resting
    /\ today' = today + 1
    /\ UNCHANGED <<tableVars, callVars, pc, idx, err, ret, seen, todo, exported>>
    /\ UNCHANGED <<queryVars, pipeVars, engVars>>

-----------------------------------------------------------------------------
(* The cross-platform pass: inputs and steps *)

MaxPerFile == 1     \* records in one platform's file
MaxCount == 2       \* largest count tried besides the default
MaxSel == 3         \* longest list handed to select_top_viral_videos directly

IG1 == [id |-> "i1", platform |-> "instagram", profile |-> "p1", views |-> 100,
        likes |-> 9, performance_ratio |-> 35]
IG2 == [id |-> "i2", platform |-> "instagram", profile |-> "p2", views |-> 50,
        performance_ratio |-> 20]
YT1 == [id |-> "y1", platform |-> "youtube", channel_id |-> "c1", views |-> 80,
        videoId |-> "y1", performance_ratio |-> 35]
YT2 == [id |-> "y2", platform |-> "youtube", channel_id |-> "c2", views |-> 30,
        performance_ratio |-> 15]
TT1 == [id |-> "t1", platform |-> "tiktok", username |-> "u1", views |-> 70,
        performance_ratio |-> 35]
TT2 == [platform |-> "tiktok", username |-> "u2", profile |-> "p9", views |-> 40,
        performance_ratio |-> 20]
FB1 == [id |-> "f1", platform |-> "facebook", page_id |-> "g1", views |-> 60,
        performance_ratio |-> 20]
FB2 == [id |-> "f2", views |-> 7]

PlatformRecords ==
    [instagram |-> {IG1, IG2}, youtube |-> {YT1, YT2},
     tiktok |-> {TT1, TT2}, facebook |-> {FB1, FB2}]

PlatformSet == {Platforms[i] : i \in DOMAIN Platforms}

\* What a platform's file may hold.
FileContents(p) ==
    {Missing, Invalid, Undecodable} \cup {JsonList(l) : l \in SeqUpTo(PlatformRecords[p], MaxPerFile)}

FileSets == {fs \in [PlatformSet -> UNION {FileContents(p) : p \in PlatformSet}] :
                \A p \in PlatformSet : fs[p] \in FileContents(p)}

\* Lists as test_select_top_viral_videos builds them: the record at position i
\* has id i and the i-th ratio; a ratio of -1 stands for a record without
\* the key.
NoKey == -1
ListOfRatios(rs) ==
    [i \in 1..Len(rs) |->
        IF rs[i] = NoKey THEN [id |-> i]
        ELSE [id |-> i, performance_ratio |-> rs[i]]]

\* test_select_top_viral_videos: ratios 5.0, 3.0, 7.0, 1.5, 4.0.
TestRatios == <<50, 30, 70, 15, 40>>

SelectInputs ==
    {ListOfRatios(rs) : rs \in SeqUpTo({NoKey, 15, 30, 40}, MaxSel) \cup {TestRatios}}

Counts == 0..MaxCount \cup {3, DefaultCount}
MinRatios == {DefaultMinRatio, 30}

\* identify_viral_videos(data_dir, generate_samples=True): the caller gives
\* generate_samples or leaves it out.
GenerateArgs == {"omitted", "True", "False"}

GenerateSamples(arg) == IF arg = "omitted" THEN TRUE ELSE arg = "True"

\* generate_sample_data: count records of random platform and ratio, each
\* with a creator, sorted by ratio; here the first k have the higher ratio.
SampleIds == <<"s1", "s2", "s3", "s4", "s5", "s6", "s7", "s8", "s9", "s10">>

GenerateSampleData(k, platform) ==
    [i \in 1..DefaultCount |->
        [id |-> SampleIds[i], platform |-> platform, views |-> 1000 * i,
         performance_ratio |-> IF i <= k THEN 150 ELSE 21,
         creator |-> "Creator"]]

\* identify_viral_videos, first step: combine_platform_videos.
Combine ==
    /\ ppc = "start"
    /\ \E fs \in FileSets, arg \in GenerateArgs :
          /\ files' = fs
          /\ genArg' = arg
          /\ pool' = CombinePlatformVideos(fs)
    /\ ppc' = "combined"
    /\ UNCHANGED <<norm, norm2, selIn, count, minRatio, top>>
    /\ UNCHANGED <<storeVars, engVars>>

\* if not all_videos and generate_samples: return generate_sample_data(...)
Fallback ==
    /\ ppc = "combined"
    /\ pool = <<>>
    /\ GenerateSamples(genArg)
    /\ \E k \in {0, DefaultCount}, platform \in PlatformSet :
          top' = GenerateSampleData(k, platform)
    /\ ppc' = "sampled"
    /\ UNCHANGED <<files, genArg, pool, norm, norm2, selIn, count, minRatio>>
    /\ UNCHANGED <<storeVars, engVars>>

Normalize ==
    /\ ppc = "combined"
    /\ ~(pool = <<>> /\ GenerateSamples(genArg))
    /\ norm' = NormalizeVideoData(pool, today)
    /\ ppc' = "normalized"
    /\ UNCHANGED <<files, genArg, pool, norm2, selIn, count, minRatio, top>>
    /\ UNCHANGED <<storeVars, engVars>>

NormalizeAgain ==
    /\ ppc = "normalized"
    /\ norm2' = NormalizeVideoData(norm, today)
    /\ ppc' = "renormalized"
    /\ UNCHANGED <<files, genArg, pool, norm, selIn, count, minRatio, top>>
    /\ UNCHANGED <<storeVars, engVars>>

CallSelect(vids, n, min_ratio) ==
    /\ selIn' = vids
    /\ count' = n
    /\ minRatio' = min_ratio
    /\ top' = SelectTopViralVideos(vids, n, min_ratio)
    /\ ppc' = "selected"

\* identify_viral_videos (cross-platform) goes on to select from norm.
Select ==
    /\ ppc \in {"normalized", "renormalized"}
    /\ \E n \in Counts, m \in MinRatios : CallSelect(norm, n, m)
    /\ UNCHANGED <<files, genArg, pool, norm, norm2>>
    /\ UNCHANGED <<storeVars, engVars>>

\* select_top_viral_videos called on a list of the caller's.
SelectDirect ==
    /\ ppc = "start"
    /\ \E vids \in SelectInputs, n \in Counts, m \in MinRatios :
          CallSelect(vids, n, m)
    /\ UNCHANGED <<files, genArg, pool, norm, norm2>>
    /\ UNCHANGED <<storeVars, engVars>>

-----------------------------------------------------------------------------
(* The scoring engine: inputs and steps *)

MaxCohort == 3      \* largest cohort besides the spec's scenario

ViewValues == {0, 1, 4, 7, 15}

\* spec.md section 8: cohort [views=10000, 20000, 5000, 50000].
ScenarioViews == <<10000, 20000, 5000, 50000>>

CohortViews == SeqUpTo(ViewValues, MaxCohort) \cup {ScenarioViews}

\* get_recent_videos gives every record a performance_ratio of its own
\* before the engine sees it.
StaleRatio == 11

CohortOf(vs, stale) ==
    [i \in 1..Len(vs) |->
        IF stale THEN [id |-> i, views |-> vs[i], performance_ratio |-> StaleRatio]
        ELSE [id |-> i, views |-> vs[i]]]

EngineMinRatios == {10, DefaultMinRatio, 25}

\* The records of the input list after the call: the loop assigns
\* performance_ratio on the caller's dicts.
CohortAfter(vids, min_ratio, ups) ==
    [i \in 1..Len(vids) |->
        IF IsViral(vids[i], vids, min_ratio)
        THEN Put(vids[i], "performance_ratio", EngineRatio(vids[i], vids, ups[i]))
        ELSE vids[i]]

IdentifyViral ==
    /\ epc = "start"
    /\ \E vs \in CohortViews, stale \in BOOLEAN, m \in EngineMinRatios :
         \E ups \in [1..Len(vs) -> BOOLEAN] :
            LET vids == CohortOf(vs, stale)
            IN  /\ viral' = IdentifyViralVideos(vids, m, ups)
                /\ cohort' = CohortAfter(vids, m, ups)
                /\ engMin' = m
    /\ epc' = "done"
    /\ UNCHANGED <<storeVars, pipeVars>>

-----------------------------------------------------------------------------
(* Specifications *)

Init ==
    /\ profiles = {}
    /\ videos = {}
    /\ daily = {}
    /\ dailyTx = {}
    /\ today = FirstDay
    /\ pc = "idle"
    /\ op = None
    /\ inFile = NoFile
    /\ inContent = NoContent
    /\ callDay = FirstDay
    /\ atStart = [profiles |-> {}, videos |-> {}, daily |-> {}, dailyTx |-> {}]
    /\ prev = [op |-> None, file |-> NoFile, content |-> NoContent, day |-> FirstDay]
    /\ todo = <<>>
    /\ exported = NoExport
    /\ inProfile = NoProfile
    /\ inVideos = <<>>
    /\ inDate = FirstDay
    /\ idx = 1
    /\ err = NoError
    /\ ret = NoReturn
    /\ calls = 0
    /\ before = {}
    /\ seen = NoRead
    /\ qDate = FirstDay
    /\ qLimit = DefaultLimit
    /\ qRows = {}
    /\ qResult = NoRead
    /\ ppc = "start"
    /\ files = [p \in PlatformSet |-> Missing]
    /\ genArg = "False"
    /\ pool = <<>>
    /\ norm = <<>>
    /\ norm2 = <<>>
    /\ selIn = <<>>
    /\ count = DefaultCount
    /\ minRatio = DefaultMinRatio
    /\ top = <<>>
    /\ epc = "start"
    /\ cohort = <<>>
    /\ engMin = DefaultMinRatio
    /\ viral = <<>>

\* The store: the writer's calls and the clock.
Next ==
    \/ AddDailyTopVideos
    \/ ImportSnapshot
    \/ AddVideo
    \/ RankAndCommit
    \/ Tick

Spec == Init /\ [][Next]_vars

\* The writer and a reader on a connection of its own.
NextReader ==
    \/ AddDailyTopVideos
    \/ AddVideo
    \/ RankAndCommit
    \/ Read

SpecReader == Init /\ [][NextReader]_vars

\* The store called through import_from_json only, with any file name.
NextImport ==
    \/ ImportAny
    \/ AddVideo
    \/ RankAndCommit
    \/ Tick

SpecImport == Init /\ [][NextImport]_vars

\* initialize_database on a data directory, besides add_profile and direct
\* imports.
NextInitialize ==
    \/ InitializeDatabase
    \/ ImportNext
    \/ ImportSnapshot
    \/ AddVideo
    \/ RankAndCommit
    \/ AddProfile

SpecInitialize == Init /\ [][NextInitialize]_vars

\* The store when the database may fail under it.
NextFailing ==
    \/ ImportSnapshot
    \/ AddVideo
    \/ RankAndCommit
    \/ StorageFails
    \/ ExportToJson

SpecFailing == Init /\ [][NextFailing]_vars

\* Profiles and videos written over days.
NextUpsert ==
    \/ AddProfile
    \/ AddDailyTopVideos
    \/ ImportSnapshot
    \/ AddVideo
    \/ RankAndCommit
    \/ Tick

SpecUpsert == Init /\ [][NextUpsert]_vars

\* The store and queries on its connection between the calls.
NextQuery ==
    \/ AddDailyTopVideos
    \/ ImportSnapshot
    \/ AddVideo
    \/ RankAndCommit
    \/ GetTopVideosByDate

SpecQuery == Init /\ [][NextQuery]_vars

\* The cross-platform pass.
NextPipe ==
    \/ Combine
    \/ Fallback
    \/ Normalize
    \/ NormalizeAgain
    \/ Select
    \/ SelectDirect

SpecPipe == Init /\ [][NextPipe]_vars

\* The per-platform scoring engine.
NextEngine == IdentifyViral

SpecEngine == Init /\ [][NextEngine]_vars

-----------------------------------------------------------------------------
(* The store's claims *)

IdsOf(vids) == {Get(vids[i], "id", None) : i \in DOMAIN vids}

RowsOn(table, date) == {r \in table : r.date = date}

\* C1: after completed calls of add_daily_top_videos / import_from_json, the
\* ranks of every date that has rows are exactly 1..N, N the number of rows
\* of that date: no duplicate rank, no gap.
C1_RanksContiguous ==
    pc \in {"idle", "done", "returned"} =>
        \A d \in {r.date : r \in daily} :
            {r.rank : r \in RowsOn(daily, d)} = 1..Cardinality(RowsOn(daily, d))

\* C2: when add_daily_top_videos(V2, d) has completed, the ids ranked for d
\* are exactly the ids of V2, whatever an earlier call left for d.
C2_RerunReplaces ==
    pc = "done" => {r.video_id : r \in RowsOn(daily, inDate)} = IdsOf(inVideos)

\* C3: what a reader on another connection gets from
\* get_top_videos_by_date(d) during add_daily_top_videos(V, d) is a result
\* of before the call or a result of after it.  Stated for lists V of
\* pairwise distinct ids, the plainest case of the claim.
C3_ReaderAtomic ==
    (/\ pc = "done"
     /\ seen # NoRead
     /\ \A i, j \in DOMAIN inVideos : i # j => inVideos[i]["id"] # inVideos[j]["id"]) =>
        seen \subseteq before \cup TopResults(videos, daily, inDate, DefaultLimit)

\* The lists normalize_video_data produces whose records have a non-empty id
\* and a platform of the data model.
DataModelPlatforms == PlatformSet \cup {"unknown"}

IsNormalizedSnapshot(vids) ==
    /\ vids \in Snapshots
    /\ \A i \in DOMAIN vids :
          vids[i]["id"] # "" /\ vids[i]["platform"] \in DataModelPlatforms

\* C4: importing a snapshot of normalized records never raises, and when it
\* is done every record is in videos and has a ranking row for the date.
C4_SnapshotPersists ==
    (op = "import_from_json" /\ IsNormalizedSnapshot(inVideos)) =>
        /\ pc # "raised"
        /\ pc = "done" =>
              \A i \in DOMAIN inVideos :
                 /\ \E v \in videos : v.id = inVideos[i]["id"]
                 /\ \E r \in RowsOn(daily, inDate) : r.video_id = inVideos[i]["id"]

\* The base name matches videos-<k>.json for a non-negative integer k.
PatternOffsetText(name) ==
    IF Len(name) >= Len(VideosDash) + Len(DotJson)
       /\ SubSeq(name, Len(name) - Len(DotJson) + 1, Len(name)) = DotJson
    THEN SubSeq(name, Len(VideosDash) + 1, Len(name) - Len(DotJson))
    ELSE SubSeq(name, Len(VideosDash) + 1, Len(name))

IsDigits(text) == text # <<>> /\ \A i \in DOMAIN text : text[i] \in DigitSet

\* C10: a list imported from videos-<k>.json is stored under the
\* day k days before the import, and a list from a file whose name does not
\* start with videos- or whose offset part is no integer under the day of
\* the import.
C10_DateFromName ==
    LET name == Basename(inFile)
        text == PatternOffsetText(name)
        expected == IF StartsWith(name, VideosDash) /\ IsDigits(text)
                    THEN today - DigitsValue(text)
                    ELSE today
    IN  /\ (op = "import_from_json" /\ pc = "add_video") => inDate = expected
        /\ (op = "import_from_json" /\ pc = "raised") => err # "OverflowError"

\* Two import_from_json calls in a row on the same path, the file holding the
\* same content, on the same day, and the second has come to its end.
ImportedTwice ==
    /\ AtRest
    /\ op = "import_from_json"
    /\ prev.op = "import_from_json"
    /\ prev.file = inFile
    /\ prev.content = inContent
    /\ prev.day = callDay

HasIds(vids) == \A i \in DOMAIN vids : "id" \in DOMAIN vids[i]

\* C11: the second import of the same file on the same day leaves the ranking
\* rows (date, video_id, rank) and the set of ids in videos as the first
\* import left them: on the store's own connection for every file, and in
\* the committed tables for every file whose records all carry an id.
C11_ImportIdempotent ==
    ImportedTwice =>
        /\ dailyTx = atStart.dailyTx
        /\ {v.id : v \in videos} = {v.id : v \in atStart.videos}
        /\ HasIds(inVideos) => daily = atStart.daily

C11_Witness ==
    /\ ImportedTwice
    /\ pc = "done"
    /\ Len(inVideos) = 2
    /\ Cardinality(daily) = 2
    /\ daily = atStart.daily

\* The file is missing, is not valid JSON (not JSON text, or not UTF-8 text)
\* or holds JSON that is not a list.
Malformed(content) ==
    \/ content.kind \in {"FileNotFoundError", "JSONDecodeError", "UnicodeDecodeError"}
    \/ content.kind = "json" /\ content.type # "list"

\* C12: import_from_json on a malformed file returns 0 and raises nothing,
\* leaves the three tables as they were, and the loop of
\* initialize_database goes on with the files that remain.
C12_MalformedImport ==
    (op = "import_from_json" /\ Malformed(inContent)) =>
        /\ pc = "returned"
        /\ ret = {0}
        /\ Tables = atStart
        /\ LoopGoesOn

\* The sqlite3 exceptions of the model: a constraint violation, and a
\* database that cannot be reached or written.
SqliteErrors == {"IntegrityError", "OperationalError"}

\* C20: a sqlite3 exception raised in import_from_json or export_to_json
\* reaches the caller: the call does not return 0, or anything else.
C20_StorageFailureSurfaced ==
    (/\ AtRest
     /\ op \in {"import_from_json", "export_to_json"}
     /\ err \in SqliteErrors) =>
        pc = "raised" /\ ret = NoReturn

\* The database fails under an import that has already stored a video.
C20_Witness ==
    /\ op = "import_from_json"
    /\ pc = "raised"
    /\ err = "OperationalError"
    /\ idx > 1
    /\ videos # {}

\* The ranks the date's rows gave a video id when the query ran.
RanksOf(id) == {r.rank : r \in {q \in qRows : q.video_id = id}}

\* C21: get_top_videos_by_date(d, limit), for a limit >= 0, returns videos
\* that have a ranking row for d, none twice, in ascending order of rank,
\* min(limit, number of ranking rows for d) of them, and no row left out has
\* a rank below a returned one.
C21_QueryByRank ==
    \A res \in qResult :
       /\ Len(res) = Min(qLimit, Cardinality(qRows))
       /\ \A i \in DOMAIN res : RanksOf(res[i].id) # {}
       /\ \A i, j \in DOMAIN res : i # j => res[i].id # res[j].id
       /\ \A i, j \in DOMAIN res :
             i < j => \A a \in RanksOf(res[i].id), b \in RanksOf(res[j].id) : a <= b
       /\ \A r \in qRows :
             (\A i \in DOMAIN res : res[i].id # r.video_id) =>
                \A i \in DOMAIN res : \A a \in RanksOf(res[i].id) : a <= r.rank

\* Two rows ranked for the date, a limit of 1, and the rank-1 video returned.
C21_Witness ==
    /\ qLimit = 1
    /\ Cardinality(qRows) = 2
    /\ \E res \in qResult : Len(res) = 1 /\ RanksOf(res[1].id) = {1}

DistinctIds(vids) ==
    /\ HasIds(vids)
    /\ \A i, j \in DOMAIN vids : i # j => vids[i]["id"] # vids[j]["id"]

\* C23: when add_daily_top_videos(V, d) has completed on a date that had no
\* ranking rows, V's ids pairwise distinct, the date's rows are exactly one
\* row per record of V, the row of V[i] ranked by V[i]'s 1-based position.
C23_RanksArePositions ==
    (/\ pc = "done"
     /\ op \in {"add_daily_top_videos", "import_from_json"}
     /\ RowsOn(atStart.dailyTx, inDate) = {}
     /\ DistinctIds(inVideos)) =>
        /\ RowsOn(daily, inDate) =
              {[date |-> inDate, video_id |-> inVideos[i]["id"], rank |-> i] :
                  i \in DOMAIN inVideos}
        /\ Cardinality(RowsOn(daily, inDate)) = Len(inVideos)
        /\ RowsOn(dailyTx, inDate) = RowsOn(daily, inDate)

\* Two raw records of different platforms stored for yesterday, another date
\* having rows already.
C23_Witness ==
    /\ pc = "done"
    /\ op = "add_daily_top_videos"
    /\ inVideos = <<B1, A2>>
    /\ atStart.dailyTx # {}
    /\ RowsOn(atStart.dailyTx, inDate) = {}
    /\ RowsOn(daily, inDate) = {[date |-> inDate, video_id |-> "b", rank |-> 1],
                                 [date |-> inDate, video_id |-> "a", rank |-> 2]}

\* C25: every row of daily_top_videos, committed or pending on the store's
\* connection, has a video_id that is not NULL and is the id of a row of
\* videos.
C25_RankedVideosExist ==
    \A r \in daily \cup dailyTx :
       /\ r.video_id # None
       /\ \E v \in videos : v.id = r.video_id

\* An import whose ranking loop raised on a record without id, after it had
\* written a row that is still pending.
C25_Witness ==
    /\ op = "import_from_json"
    /\ pc = "raised"
    /\ err = "IntegrityError"
    /\ Cardinality(videos) = 3
    /\ dailyTx # daily

\* C27: in a call of add_daily_top_videos or import_from_json, through every
\* add_video it makes, the profiles table stays as it was when the call
\* began.
C27_ProfilesUntouched ==
    op \in {"add_daily_top_videos", "import_from_json"} =>
        profiles = atStart.profiles

\* Videos stored while profiles has a row, and a stored video whose creator
\* has no profile.
C27_Witness ==
    /\ op \in {"add_daily_top_videos", "import_from_json"}
    /\ pc = "done"
    /\ profiles # {}
    /\ \E v \in videos : \A r \in profiles : r.id # v.profile_id

\* C28: when a sqlite3 exception has ended add_daily_top_videos, called
\* directly or by import_from_json, videos and daily_top_videos are as they
\* were when the call began.
C28_FailedCallLeavesNothing ==
    (/\ op \in {"add_daily_top_videos", "import_from_json"}
     /\ pc = "raised"
     /\ err \in SqliteErrors) =>
        /\ videos = atStart.videos
        /\ daily = atStart.daily
        /\ dailyTx = atStart.dailyTx

\* The table has row and, when row has an id, no other row of that id.
HoldsOnly(table, row) ==
    /\ row \in table
    /\ \A r \in table : (r.id # None /\ r.id = row.id) => r = row

\* C22: profiles and videos have at most one row per id, and when add_profile
\* or add_video has written a record the row of its id is the row built from
\* that record alone: the values it gave, the defaults for what it left out,
\* nothing of an earlier row.
C22_LastWriteWins ==
    /\ \A r, q \in profiles : (r.id # None /\ r.id = q.id) => r = q
    /\ \A r, q \in videos : (r.id # None /\ r.id = q.id) => r = q
    /\ (op = "add_profile" /\ pc = "done") =>
          \A p \in inProfile : HoldsOnly(profiles, ProfileRow(p, callDay))
    /\ (pc = "add_video" /\ idx > 1) =>
          HoldsOnly(videos, VideoRow(inVideos[idx - 1], callDay))

\* A profile written with its fields, then again under its username alone, a
\* day later: the row has the defaults.
C22_Witness ==
    /\ op = "add_profile"
    /\ pc = "done"
    /\ prev.op = "add_profile"
    /\ inProfile = {P2}
    /\ callDay = FirstDay + 1
    /\ profiles = {[id |-> "p1", platform |-> "instagram", name |-> "p1",
                     url |-> <<"https://www.", "instagram", ".com/", "p1">>,
                     follower_count |-> 0, last_updated |-> FirstDay + 1]}

-----------------------------------------------------------------------------
(* The cross-platform pass's claims *)

SameRatio(s, r) == SelectSeq(s, LAMBDA v : RatioKey(v) = r)

Occurrences(s, x) == Cardinality({i \in DOMAIN s : s[i] = x})

\* C5: normalizing the output of normalize_video_data changes nothing.
C5_NormalizeIdempotent == ppc = "renormalized" => norm2 = norm

PlatformRank(v) == CHOOSE i \in DOMAIN Platforms : Platforms[i] = v["platform"]

\* C6: the returned records of one ratio are the first of that ratio in the
\* input, in the input's order; and in a pool combined from the platform
\* files a record of an earlier platform comes before a record of a later
\* platform with the same ratio.
C6_TieBreak ==
    ppc = "selected" =>
        /\ \A r \in {RatioKey(top[i]) : i \in DOMAIN top} :
              SameRatio(top, r) =
                 SubSeq(SameRatio(selIn, r), 1, Len(SameRatio(top, r)))
        /\ selIn = norm =>
              \A i, j \in DOMAIN top :
                 (/\ RatioKey(top[i]) = RatioKey(top[j])
                  /\ top[i]["platform"] \in PlatformSet
                  /\ top[j]["platform"] \in PlatformSet
                  /\ PlatformRank(top[i]) < PlatformRank(top[j])) => i < j

C6_Witness ==
    /\ ppc = "selected"
    /\ selIn = norm
    /\ \E i, j \in DOMAIN top :
          /\ i < j
          /\ RatioKey(top[i]) = RatioKey(top[j])
          /\ top[i]["platform"] = "instagram"
          /\ top[j]["platform"] = "tiktok"

NumEligible == Cardinality({i \in DOMAIN selIn : RatioKey(selIn[i]) >= minRatio})

\* C7: select_top_viral_videos returns min(count, number of eligible
\* records) records of the input, each with a ratio >= min_ratio, in
\* non-increasing order of ratio, and leaves out no eligible record with a
\* ratio above a returned one; the test's list gives ids 3, 1, 5.
C7_SelectTop ==
    ppc = "selected" =>
        /\ Len(top) = Min(count, NumEligible)
        /\ \A i \in DOMAIN top :
              /\ RatioKey(top[i]) >= minRatio
              /\ Occurrences(top, top[i]) <= Occurrences(selIn, top[i])
        /\ \A i, j \in DOMAIN top : i < j => RatioKey(top[i]) >= RatioKey(top[j])
        /\ \A k \in DOMAIN selIn :
              (/\ RatioKey(selIn[k]) >= minRatio
               /\ Occurrences(top, selIn[k]) < Occurrences(selIn, selIn[k]))
              => \A i \in DOMAIN top : RatioKey(top[i]) >= RatioKey(selIn[k])
        /\ (selIn = ListOfRatios(TestRatios) /\ count = 3 /\ minRatio = 30) =>
              [i \in DOMAIN top |-> top[i]["id"]] = <<3, 1, 5>>

C7_Witness ==
    /\ ppc = "selected"
    /\ selIn = ListOfRatios(TestRatios)
    /\ count = 3
    /\ minRatio = 30
    /\ Len(top) = 3

\* C13: generated sample data is returned only when no platform gave a
\* record and the caller passed generate_samples=True itself; with
\* generate_samples=False an empty pool gives the empty list.
C13_FallbackOnlyWhenEnabled ==
    /\ ppc = "sampled" => (pool = <<>> /\ genArg = "True")
    /\ (ppc = "selected" /\ selIn = norm /\ pool = <<>> /\ genArg = "False") =>
          top = <<>>

\* What a platform's file contributes: its records when it loaded.
Contribution(p) == IF files[p].kind = "json" THEN files[p].value ELSE <<>>

\* C14: whichever of the four files are missing, not JSON or unreadable,
\* combine_platform_videos returns the records of the files that loaded, in
\* the order instagram, youtube, tiktok, facebook.
C14_CombineSkipsFailures ==
    ppc \in {"combined", "sampled", "normalized", "renormalized"} =>
        pool = Contribution("instagram") \o Contribution("youtube")
                  \o Contribution("tiktok") \o Contribution("facebook")

C14_Witness ==
    /\ ppc = "combined"
    /\ files["instagram"] = Undecodable
    /\ files["youtube"] = JsonList(<<YT1>>)
    /\ files["tiktok"] = Invalid
    /\ files["facebook"] = JsonList(<<FB1>>)
    /\ pool = <<YT1, FB1>>

\* C15: the output of normalize_video_data has the input's length, and its
\* i-th record has the id and the platform of the i-th input record, or
\* their defaults.
C15_NormalizeOneToOne ==
    ppc \in {"normalized", "renormalized"} =>
        /\ Len(norm) = Len(pool)
        /\ \A i \in DOMAIN norm :
              /\ norm[i]["id"] = (IF "id" \in DOMAIN pool[i] THEN pool[i]["id"] ELSE "")
              /\ norm[i]["platform"] =
                    (IF "platform" \in DOMAIN pool[i] THEN pool[i]["platform"]
                     ELSE "unknown")

C15_Witness ==
    /\ ppc = "normalized"
    /\ pool = <<IG1, TT2, FB2>>
    /\ Len(norm) = 3

\* C16: the creator of a normalized record is the value under the first of
\* profile, channel_id, username, page_id the raw record has, whatever its
\* platform, and "Unknown Creator" when it has none; a raw record without
\* platform gets platform "unknown".
C16_CreatorResolution ==
    ppc = "normalized" =>
        \A i \in DOMAIN norm :
           /\ \A k \in DOMAIN CreatorKeys :
                 (/\ CreatorKeys[k] \in DOMAIN pool[i]
                  /\ \A j \in 1..(k - 1) : CreatorKeys[j] \notin DOMAIN pool[i])
                 => norm[i]["creator"] = pool[i][CreatorKeys[k]]
           /\ (\A k \in DOMAIN CreatorKeys : CreatorKeys[k] \notin DOMAIN pool[i])
                 => norm[i]["creator"] = "Unknown Creator"
           /\ "platform" \notin DOMAIN pool[i] => norm[i]["platform"] = "unknown"

C16_Witness ==
    /\ ppc = "normalized"
    /\ pool = <<TT2, FB2>>
    /\ norm[1]["creator"] = "p9"
    /\ norm[2]["creator"] = "Unknown Creator"
    /\ norm[2]["platform"] = "unknown"

\* C17: every record normalize_video_data gives has a non-empty id and a
\* non-empty platform.
C17_IdAndPlatformNonEmpty ==
    ppc = "normalized" =>
        \A i \in DOMAIN norm : norm[i]["id"] # "" /\ norm[i]["platform"] # ""

\* C26: a record of the pool that carries a performance_ratio has that very
\* ratio after normalize_video_data, whatever the views of the pool's other
\* records, and every record select_top_viral_videos returns from the
\* normalized pool is one of the normalized records, unchanged.
C26_RatiosCarriedOver ==
    /\ ppc \in {"normalized", "renormalized", "selected"} =>
          \A i \in DOMAIN norm :
             "performance_ratio" \in DOMAIN pool[i] =>
                norm[i]["performance_ratio"] = pool[i]["performance_ratio"]
    /\ (ppc = "selected" /\ selIn = norm) =>
          \A k \in DOMAIN top : \E i \in DOMAIN norm : top[k] = norm[i]

\* Three platforms' records; the two selected keep 3.5 and 2.0 although
\* their views are 100 and 60 against a mean of 63.
C26_Witness ==
    /\ ppc = "selected"
    /\ selIn = norm
    /\ pool = <<IG1, YT2, FB1>>
    /\ Len(top) = 2
    /\ top[1]["performance_ratio"] = 35
    /\ top[2]["performance_ratio"] = 20

-----------------------------------------------------------------------------
(* The scoring engine's claims *)

InViral(video) == \E k \in DOMAIN viral : viral[k]["id"] = video["id"]

\* The tenths round(views / average, 1) may give for cohort[i].
RoundedRatios(i) ==
    {RoundTenths(cohort[i]["views"] * Len(cohort), SumViews(cohort), up) :
        up \in BOOLEAN}

\* C8 as stated: a record is in the output iff its ratio rounded to one
\* decimal is >= min_ratio.
C8_ViralIffRoundedRatio ==
    (epc = "done" /\ SumViews(cohort) > 0) =>
        \A i \in DOMAIN cohort :
           /\ InViral(cohort[i]) => cohort[i]["performance_ratio"] >= engMin
           /\ (\A t \in RoundedRatios(i) : t >= engMin) => InViral(cohort[i])

\* C8 amended: a record is in the output iff views / average, before
\* rounding, is >= min_ratio; the ratio attached to it is that quotient
\* rounded to one decimal.
C8_ViralIffExactRatio ==
    (epc = "done" /\ SumViews(cohort) > 0) =>
        \A i \in DOMAIN cohort :
           /\ InViral(cohort[i]) <=>
                 10 * cohort[i]["views"] * Len(cohort) >= engMin * SumViews(cohort)
           /\ InViral(cohort[i]) => cohort[i]["performance_ratio"] \in RoundedRatios(i)

\* A record left out although its rounded ratio reaches min_ratio.
C8_Witness ==
    /\ epc = "done"
    /\ SumViews(cohort) > 0
    /\ \E i \in DOMAIN cohort :
          /\ ~InViral(cohort[i])
          /\ \A t \in RoundedRatios(i) : t >= engMin

\* C9: with a positive average every returned record carries the tenth
\* nearest to its views divided by the mean of all the cohort's views; the
\* cohort 10000, 20000, 5000, 50000 with min_ratio 2.0 yields the 50000-view
\* record alone, with 2.4.
C9_RatioOverCohortMean ==
    (epc = "done" /\ SumViews(cohort) > 0) =>
        /\ \A k \in DOMAIN viral :
              LET scaled == 10 * viral[k]["performance_ratio"] * SumViews(cohort)
                  exact == 100 * viral[k]["views"] * Len(cohort)
              IN  /\ scaled - exact <= 5 * SumViews(cohort)
                  /\ exact - scaled <= 5 * SumViews(cohort)
        /\ ([i \in DOMAIN cohort |-> cohort[i]["views"]] = ScenarioViews
            /\ engMin = DefaultMinRatio) =>
              /\ Len(viral) = 1
              /\ viral[1]["views"] = 50000
              /\ viral[1]["performance_ratio"] = 24

C9_Witness ==
    /\ epc = "done"
    /\ [i \in DOMAIN cohort |-> cohort[i]["views"]] = ScenarioViews
    /\ engMin = DefaultMinRatio
    /\ Len(viral) = 1

\* C18: the records identify_viral_videos returns are records of its input,
\* in the input's order (a record of the cohort has its position as id).
C18_ViralInInputOrder ==
    epc = "done" =>
        /\ \A k \in DOMAIN viral :
              /\ viral[k]["id"] \in DOMAIN cohort
              /\ viral[k] = cohort[viral[k]["id"]]
        /\ \A k, l \in DOMAIN viral : k < l => viral[k]["id"] < viral[l]["id"]

\* Two viral records, the later one with the higher ratio.
C18_Witness ==
    /\ epc = "done"
    /\ Len(viral) = 2
    /\ viral[1]["performance_ratio"] < viral[2]["performance_ratio"]

\* C19: an empty cohort gives the empty list; a cohort whose views are all 0
\* gives the empty list for a positive min_ratio and no record gets a ratio.
C19_DegenerateCohort ==
    epc = "done" =>
        /\ cohort = <<>> => viral = <<>>
        /\ (cohort # <<>> /\ SumViews(cohort) = 0 /\ engMin > 0) =>
              /\ viral = <<>>
              /\ \A i \in DOMAIN cohort : "performance_ratio" \notin DOMAIN cohort[i]
                                           \/ cohort[i]["performance_ratio"] = StaleRatio

C19_Witness ==
    /\ epc = "done"
    /\ Len(cohort) = 3
    /\ SumViews(cohort) = 0
    /\ viral = <<>>

RECURSIVE SumOf(_)
SumOf(ts) == IF ts = <<>> THEN 0 ELSE Head(ts) + SumOf(Tail(ts))

\* The cohort's ratios in tenths: the one the engine attached to a viral
\* record, round(views / average, 1) for the others, ups saying how round()
\* goes at a halfway quotient.
RatioTenths(ups) ==
    [i \in DOMAIN cohort |->
        IF InViral(cohort[i]) THEN cohort[i]["performance_ratio"]
        ELSE RoundTenths(cohort[i]["views"] * Len(cohort), SumViews(cohort), ups[i])]

\* C24: for a cohort of n records with a positive average, the sum of
\* ratio_i * average is within n * 0.05 * average of the sum of the views;
\* in tenths and multiplied by 20 n / total: |2 * sum - 20 n| <= n.
C24_RatiosSumToViews ==
    (epc = "done" /\ SumViews(cohort) > 0) =>
        \A ups \in [DOMAIN cohort -> BOOLEAN] :
           LET sum == SumOf(RatioTenths(ups))
               n == Len(cohort)
           IN  2 * sum - 20 * n <= n /\ 20 * n - 2 * sum <= n

\* A cohort of three whose rounded ratios do not add up to 3.0.
C24_Witness ==
    /\ epc = "done"
    /\ SumViews(cohort) > 0
    /\ Len(cohort) = 3
    /\ viral # <<>>
    /\ SumOf(RatioTenths([i \in DOMAIN cohort |-> TRUE])) # 10 * Len(cohort)

\* C29: at the default threshold every record the engine returns carries a
\* rounded ratio >= 2.0, and the filter of select_top_viral_videos at 2.0
\* keeps every one of them after normalize_video_data.
C29_SecondFilterKeepsViral ==
    (epc = "done" /\ engMin = DefaultMinRatio) =>
        /\ \A k \in DOMAIN viral : viral[k]["performance_ratio"] >= DefaultMinRatio
        /\ FilterByRatio(NormalizeVideoData(viral, today), DefaultMinRatio)
              = NormalizeVideoData(viral, today)
        /\ Len(SelectTopViralVideos(NormalizeVideoData(viral, today), DefaultCount,
                                    DefaultMinRatio)) = Len(viral)

\* A viral record whose ratio of 2.04 is rounded down to the threshold.
C29_Witness ==
    /\ epc = "done"
    /\ engMin = DefaultMinRatio
    /\ \E k \in DOMAIN viral :
          /\ viral[k]["performance_ratio"] = DefaultMinRatio
          /\ 10 * viral[k]["views"] * Len(cohort) > DefaultMinRatio * SumViews(cohort)

\* C30: at min_ratio 2.0 at most floor(n / 2) of a cohort's n records are
\* viral; a cohort of one record and a cohort whose records all have the
\* same views have none.
C30_AtMostHalfViral ==
    (epc = "done" /\ engMin = DefaultMinRatio) =>
        /\ 2 * Len(viral) <= Len(cohort)
        /\ Len(cohort) = 1 => viral = <<>>
        /\ (\A i, j \in DOMAIN cohort : cohort[i]["views"] = cohort[j]["views"]) =>
              viral = <<>>

\* Half of the cohort is viral: views 15 and 0.
C30_Witness ==
    /\ epc = "done"
    /\ engMin = DefaultMinRatio
    /\ Len(cohort) = 2
    /\ Len(viral) = 1

====
